---------------------------- MODULE Spec2Model ----------------------------
(***************************************************************************)
(* A model of the calculator repository: the rule-based phrase rewriter    *)
(* and the eval-based evaluator of calculator.py (preprocess_expression,   *)
(* evaluate_expression, the /calculate handler) and the fixed-format CLI   *)
(* of main.py (split_expression, calculate, calculate_multiple).           *)
(*                                                                         *)
(* Text is a sequence of one-character strings, so that the regular        *)
(* expressions, str.split, str.strip and str.isdigit are modelled on the   *)
(* characters they inspect.                                                *)
(***************************************************************************)
EXTENDS Integers, Sequences, FiniteSets, TLC

VARIABLES
    prog,       \* which program is running: "web" (calculator.py), "cli" (main.py), "norm"
    variables,  \* calculator.py: the module-level dict `variables`
    expr,       \* calculator.py: the argument of the last evaluate_expression call
    result,     \* calculator.py: what the last evaluate_expression call returned
    calls,      \* number of evaluate_expression calls made so far
    pc,         \* per request handler: "idle", "evaluated" (eval done, store pending), "done"
    local,      \* per request handler: the locals var/result of evaluate_expression
    remaining,  \* main.py: iterations left of `for _ in range(num)`; -1 before the loop
    line,       \* main.py: the last line read by input()
    outcome,    \* main.py: what the last iteration printed, or the exception that escaped
    ntext,      \* the argument of preprocess_expression
    nout,       \* the value preprocess_expression returned, <<"?">> before the call
    base,       \* the variable table when the request handlers in flight were all idle
    rounds      \* number of rounds of concurrent requests served so far

vars ==
    <<prog, variables, expr, result, calls, pc, local, remaining, line, outcome,
      ntext, nout, base, rounds>>

-----------------------------------------------------------------------------
(* Characters *)

LowerLetters ==
    {"a","b","c","d","e","f","g","h","i","j","k","l","m",
     "n","o","p","q","r","s","t","u","v","w","x","y","z"}

UpperLetters == {"X", "P", "T", "O"}

DecimalDigits == {"0","1","2","3","4","5","6","7","8","9"}

\* U+00B2 SUPERSCRIPT TWO: category No, Numeric_Type=Digit. str.isdigit() is
\* True for it, str.isdecimal() is False and int() rejects it.
SuperscriptDigits == {"²"}

Whitespace == {" "}

\* str.lower on one character
Lower(c) ==
    CASE c = "X" -> "x"
      [] c = "P" -> "p"
      [] c = "T" -> "t"
      [] c = "O" -> "o"
      [] OTHER -> c

\* regex \w on one character
IsWordChar(c) == c \in LowerLetters \cup UpperLetters \cup DecimalDigits \cup {"_"}

-----------------------------------------------------------------------------
(* Sequence helpers *)

RECURSIVE MapLower(_)
MapLower(s) == IF s = <<>> THEN <<>> ELSE <<Lower(Head(s))>> \o MapLower(Tail(s))

\* s[i..] starts with p
StartsAt(s, i, p) ==
    /\ i + Len(p) - 1 <= Len(s)
    /\ \A k \in 1..Len(p) : s[i + k - 1] = p[k]

\* regex \b between s[i-1] and s[i]
BoundaryAt(s, i) ==
    LET before == i > 1 /\ i - 1 <= Len(s) /\ IsWordChar(s[i - 1])
        after  == i >= 1 /\ i <= Len(s) /\ IsWordChar(s[i])
    IN  before # after

\* the pattern p, written \bp\b when wb, matches s at i
MatchAt(s, i, p, wb) ==
    /\ StartsAt(s, i, p)
    /\ wb => (BoundaryAt(s, i) /\ BoundaryAt(s, i + Len(p)))

\* re.sub(p, r, s) for a literal pattern: leftmost non-overlapping matches
RECURSIVE SubFrom(_, _, _, _, _)
SubFrom(s, i, p, r, wb) ==
    IF i > Len(s) THEN <<>>
    ELSE IF MatchAt(s, i, p, wb) THEN r \o SubFrom(s, i + Len(p), p, r, wb)
    ELSE <<s[i]>> \o SubFrom(s, i + 1, p, r, wb)

ReSub(p, r, s, wb) == SubFrom(s, 1, p, r, wb)

\* the start positions at which re.sub(p, ., s) replaces
RECURSIVE MatchesFrom(_, _, _, _)
MatchesFrom(s, i, p, wb) ==
    IF i > Len(s) THEN {}
    ELSE IF MatchAt(s, i, p, wb) THEN {i} \cup MatchesFrom(s, i + Len(p), p, wb)
    ELSE MatchesFrom(s, i + 1, p, wb)

\* length of the longest run of characters of cs starting at s[i]
RECURSIVE RunLen(_, _, _)
RunLen(s, i, cs) == IF i <= Len(s) /\ s[i] \in cs THEN 1 + RunLen(s, i + 1, cs) ELSE 0

\* re.sub(p ([cs]+), f(\1), s): literal prefix p, then a greedy group over cs
RECURSIVE SubGroupFrom(_, _, _, _, _)
SubGroupFrom(s, i, p, cs, f) ==
    IF i > Len(s) THEN <<>>
    ELSE LET n == RunLen(s, i + Len(p), cs)
         IN  IF StartsAt(s, i, p) /\ n >= 1
             THEN f \o <<"(">> \o SubSeq(s, i + Len(p), i + Len(p) + n - 1) \o <<")">>
                    \o SubGroupFrom(s, i + Len(p) + n, p, cs, f)
             ELSE <<s[i]>> \o SubGroupFrom(s, i + 1, p, cs, f)

RECURSIVE MatchesGroupFrom(_, _, _, _)
MatchesGroupFrom(s, i, p, cs) ==
    IF i > Len(s) THEN {}
    ELSE LET n == RunLen(s, i + Len(p), cs)
         IN  IF StartsAt(s, i, p) /\ n >= 1
             THEN {i} \cup MatchesGroupFrom(s, i + Len(p) + n, p, cs)
             ELSE MatchesGroupFrom(s, i + 1, p, cs)

\* str.strip()
RECURSIVE LStrip(_)
LStrip(s) == IF s # <<>> /\ Head(s) \in Whitespace THEN LStrip(Tail(s)) ELSE s

RECURSIVE RStrip(_)
RStrip(s) ==
    IF s # <<>> /\ s[Len(s)] \in Whitespace THEN RStrip(SubSeq(s, 1, Len(s) - 1)) ELSE s

Strip(s) == RStrip(LStrip(s))

\* ' '.join(s.split()): runs of whitespace become one space, the ends are trimmed
RECURSIVE Squeeze(_)
Squeeze(s) ==
    IF s = <<>> THEN <<>>
    ELSE IF Head(s) \in Whitespace
         THEN LET rest == LStrip(s)
              IN  IF rest = <<>> THEN <<>> ELSE <<" ">> \o Squeeze(rest)
         ELSE <<Head(s)>> \o Squeeze(Tail(s))

JoinSplit(s) == Squeeze(LStrip(s))

\* the substring t occurs in s (Python `t in s`)
Contains(s, t) == \E i \in 1..(Len(s) + 1) : StartsAt(s, i, t)

-----------------------------------------------------------------------------
(* calculator.py: preprocess_expression *)

\* The rewrite passes of preprocess_expression in source order.  kind "lit" is
\* re.sub of a literal phrase (wb: the pattern is written with \b at both
\* ends), kind "grp" is a literal prefix followed by a captured group.
Passes == <<
    [kind |-> "lit", pat |-> <<"t","o"," ","t","h","e"," ","p","o","w","e","r"," ","o","f">>, rep |-> <<"*","*">>, wb |-> TRUE,  cs |-> {}],
    [kind |-> "lit", pat |-> <<"t","o"," ","t","h","e"," ","p","o","w","e","r">>,    rep |-> <<"*","*">>, wb |-> TRUE,  cs |-> {}],
    [kind |-> "lit", pat |-> <<"p","o","w","e","r"," ","o","f">>,        rep |-> <<"*","*">>, wb |-> TRUE,  cs |-> {}],
    [kind |-> "lit", pat |-> <<"p","o","w","e","r">>,           rep |-> <<"*","*">>, wb |-> TRUE,  cs |-> {}],
    [kind |-> "grp", pat |-> <<"s","q","u","a","r","e"," ","r","o","o","t"," ","o","f"," ">>, rep |-> <<"s","q","r","t">>, wb |-> FALSE,
     cs |-> DecimalDigits \cup {"."}],
    [kind |-> "grp", pat |-> <<"f","a","c","t","o","r","i","a","l"," ","o","f"," ">>,   rep |-> <<"f","a","c","t","o","r","i","a","l">>, wb |-> FALSE,
     cs |-> DecimalDigits],
    [kind |-> "lit", pat |-> <<"p","i">>,              rep |-> <<"p","i">>, wb |-> TRUE,  cs |-> {}],
    [kind |-> "lit", pat |-> <<"e">>,               rep |-> <<"e">>,  wb |-> TRUE,  cs |-> {}],
    [kind |-> "lit", pat |-> <<"d","i","v","i","d","e","d"," ","b","y">>,      rep |-> <<"/">>,  wb |-> FALSE, cs |-> {}],
    [kind |-> "lit", pat |-> <<"m","u","l","t","i","p","l","i","e","d"," ","b","y">>,   rep |-> <<"*">>,  wb |-> FALSE, cs |-> {}],
    [kind |-> "lit", pat |-> <<"t","i","m","e","s">>,           rep |-> <<"*">>,  wb |-> TRUE,  cs |-> {}],
    [kind |-> "lit", pat |-> <<"t","h","e">>,             rep |-> <<>>,   wb |-> TRUE,  cs |-> {}],
    [kind |-> "lit", pat |-> <<"o","f">>,              rep |-> <<>>,   wb |-> TRUE,  cs |-> {}] >>

ApplyPass(p, s) ==
    IF p.kind = "lit" THEN ReSub(p.pat, p.rep, s, p.wb)
    ELSE SubGroupFrom(s, 1, p.pat, p.cs, p.rep)

\* the text after expr.lower() and the first k passes
RECURSIVE AfterPasses(_, _)
AfterPasses(k, text) ==
    IF k = 0 THEN MapLower(text) ELSE ApplyPass(Passes[k], AfterPasses(k - 1, text))

preprocess_expression(text) == JoinSplit(AfterPasses(Len(Passes), text))

\* where pass k replaces, as <<start, end + 1>> positions in the text it is applied to
PassMatches(k, text) ==
    LET p == Passes[k]
        s == AfterPasses(k - 1, text)
    IN  IF p.kind = "lit"
        THEN {<<i, i + Len(p.pat)>> : i \in MatchesFrom(s, 1, p.pat, p.wb)}
        ELSE {<<i, i + Len(p.pat) + RunLen(s, i + Len(p.pat), p.cs)>> :
                 i \in MatchesGroupFrom(s, 1, p.pat, p.cs)}

-----------------------------------------------------------------------------
(* Values of the evaluator *)

\* A Python value is <<tag, n, d>>:
\*   "int"    the integer n (|n| <= MaxAbs)
\*   "int10"  the integer 10 ** n, kept symbolic because it exceeds MaxAbs
\*   "bool"   True (n = 1) or False (n = 0)
\*   "float"  the double nearest to n / d (lowest terms, d > 0)
\*   "const"  a float constant of the math module (n = 1: math.pi, n = 2: math.e)
\*   "func"   a function of the math module (n = 1: math.sqrt, n = 2: math.factorial)
\*   "tuple"  the empty tuple
\*   "host"   an object of the host interpreter that is no number: a class
\*            (n = class of the value tagged below) or a module (n = 10: math)
MaxAbs == 5000

\* sys.int_info.default_max_str_digits: str() of an int with more digits raises ValueError
IntMaxStrDigits == 4300

IntV(n) == <<"int", n, 1>>
BoolV(b) == <<"bool", IF b THEN 1 ELSE 0, 1>>
MathPi == <<"const", 1, 1>>
MathE == <<"const", 2, 1>>
MathSqrt == <<"func", 1, 1>>
MathFactorial == <<"func", 2, 1>>
MathModule == <<"host", 10, 1>>
NoValue == <<"none", 0, 1>>

\* the outcome of evaluating something: a value, or the exception raised.
\* "OutOfModel" marks a value the model does not represent (beyond MaxAbs, or
\* float arithmetic); the actions do not take inputs that produce it.
Ok(v) == [err |-> "", val |-> v]
Raise(e) == [err |-> e, val |-> NoValue]
OutOfModel == Raise("OutOfModel")

Abs(n) == IF n < 0 THEN -n ELSE n

RECURSIVE Gcd(_, _)
Gcd(a, b) == IF b = 0 THEN a ELSE Gcd(b, a % b)

\* the float n / d for integers n, d with d # 0
FloatV(n, d) ==
    LET g == Gcd(Abs(n), Abs(d))
        sgn == IF d < 0 THEN -1 ELSE 1
    IN  <<"float", (sgn * n) \div g, Abs(d) \div g>>

\* Python's floor division and modulus of integers, b # 0
FloorDiv(a, b) == IF b > 0 THEN a \div b ELSE (-a) \div (-b)
PyMod(a, b) == a - b * FloorDiv(a, b)

IsIntLike(v) == v[1] \in {"int", "bool"}
IsNumber(v) == v[1] \in {"int", "bool", "float", "const", "int10"}
IsZero(v) == v[1] \in {"int", "bool", "float"} /\ v[2] = 0

\* a ** b for integers, b >= 0: the exact value, or MaxAbs + 1 when it exceeds MaxAbs
RECURSIVE PowAcc(_, _, _)
PowAcc(a, b, acc) ==
    IF b = 0 THEN acc
    ELSE IF Abs(acc * a) > MaxAbs THEN MaxAbs + 1
    ELSE PowAcc(a, b - 1, acc * a)

PowCapped(a, b) ==
    IF b = 0 THEN 1
    ELSE IF a \in {0, 1} THEN a
    ELSE IF a = -1 THEN (IF b % 2 = 0 THEN 1 ELSE -1)
    ELSE PowAcc(a, b, 1)

IntResult(n) == IF Abs(n) > MaxAbs THEN OutOfModel ELSE Ok(IntV(n))

\* a binary operator applied to two integers (bool counts as int)
IntOp(op, a, b) ==
    CASE op = <<"+">> -> IntResult(a + b)
      [] op = <<"-">> -> IntResult(a - b)
      [] op = <<"*">> -> IntResult(a * b)
      [] op = <<"/">> -> IF b = 0 THEN Raise("ZeroDivisionError") ELSE Ok(FloatV(a, b))
      [] op = <<"/","/">> -> IF b = 0 THEN Raise("ZeroDivisionError") ELSE Ok(IntV(FloorDiv(a, b)))
      [] op = <<"%">> -> IF b = 0 THEN Raise("ZeroDivisionError") ELSE Ok(IntV(PyMod(a, b)))
      [] op = <<"*","*">> ->
            IF b >= 0
            THEN (IF Abs(a) >= 2 /\ PowCapped(a, b) > MaxAbs
                  THEN (IF a = 10 THEN Ok(<<"int10", b, 1>>) ELSE OutOfModel)
                  ELSE Ok(IntV(PowCapped(a, b))))
            ELSE (IF a = 0 THEN Raise("ZeroDivisionError")
                  ELSE IF Abs(PowCapped(a, -b)) > MaxAbs THEN OutOfModel
                  ELSE Ok(FloatV(1, PowCapped(a, -b))))
      [] op = <<"=","=">> -> Ok(BoolV(a = b))
      [] op = <<"<">> -> Ok(BoolV(a < b))
      [] OTHER -> OutOfModel

\* BINARY_OP of the interpreter on two values
BinOp(op, x, y) ==
    IF IsIntLike(x) /\ IsIntLike(y) THEN IntOp(op, x[2], y[2])
    ELSE IF IsNumber(x) /\ IsNumber(y)
    THEN (IF op \in {<<"/">>, <<"/","/">>, <<"%">>} /\ IsZero(y) THEN Raise("ZeroDivisionError")
          ELSE IF op = <<"=","=">> /\ x[1] \in {"int", "bool", "float"}
                              /\ y[1] \in {"int", "bool", "float"}
          THEN Ok(BoolV(x[2] * y[3] = y[2] * x[3]))
          ELSE OutOfModel)
    ELSE IF op = <<"=","=">> THEN Ok(BoolV(x = y))
    ELSE IF x[1] = "tuple" \/ y[1] = "tuple" THEN OutOfModel
    ELSE Raise("TypeError")

\* the class object of a value, as a host object
ClassOf(v) ==
    CASE v[1] = "int" -> <<"host", 1, 1>>
      [] v[1] = "int10" -> <<"host", 1, 1>>
      [] v[1] = "float" -> <<"host", 2, 1>>
      [] v[1] = "const" -> <<"host", 2, 1>>
      [] v[1] = "bool" -> <<"host", 3, 1>>
      [] v[1] = "func" -> <<"host", 4, 1>>
      [] v[1] = "tuple" -> <<"host", 5, 1>>
      [] v[1] = "host" /\ v[2] = 10 -> <<"host", 7, 1>>
      [] OTHER -> <<"host", 6, 1>>

\* LOAD_ATTR: attribute access never consults the scope
GetAttr(v, name) ==
    IF name = <<"_","_","c","l","a","s","s","_","_">> THEN Ok(ClassOf(v))
    ELSE IF name = <<"_","_","s","e","l","f","_","_">> /\ v[1] = "func" THEN Ok(MathModule)
    ELSE IF name = <<"z","z">> THEN Raise("AttributeError")
    ELSE OutOfModel

RECURSIVE Isqrt(_, _)
Isqrt(n, r) == IF r * r >= n THEN r ELSE Isqrt(n, r + 1)

\* n! , or MaxAbs + 1 when it exceeds MaxAbs
RECURSIVE FactAcc(_, _)
FactAcc(n, acc) ==
    IF n <= 1 THEN acc
    ELSE IF acc * n > MaxAbs THEN MaxAbs + 1
    ELSE FactAcc(n - 1, acc * n)

Fact(n) == FactAcc(n, 1)

\* CALL of a value with one argument
CallValue(f, a) ==
    IF f[1] = "func"
    THEN (IF ~IsIntLike(a) THEN (IF IsNumber(a) THEN OutOfModel ELSE Raise("TypeError"))
          ELSE IF a[2] < 0 THEN Raise("ValueError")
          ELSE IF f = MathSqrt
          THEN (IF Isqrt(a[2], 0) * Isqrt(a[2], 0) = a[2]
                THEN Ok(FloatV(Isqrt(a[2], 0), 1)) ELSE OutOfModel)
          ELSE IntResult(Fact(a[2])))
    ELSE IF f[1] = "host" THEN OutOfModel
    ELSE Raise("TypeError")

\* str(v) raises ValueError: an int of more than IntMaxStrDigits digits
StrRaises(v) == v[1] = "int10" /\ v[2] + 1 > IntMaxStrDigits

-----------------------------------------------------------------------------
(* The expression language of eval(), as far as the inputs below use it *)

Operators2 == {<<"*","*">>, <<"/","/">>, <<"=","=">>, <<"<","=">>}
Operators1 == {"+", "-", "*", "/", "%", "=", "<", "(", ")", "."}
BinaryOperators == {<<"+">>, <<"-">>, <<"*">>, <<"/">>, <<"/","/">>, <<"%">>, <<"*","*">>, <<"=","=">>, <<"<">>}

Token(t, s) == [t |-> t, s |-> s]

\* the tokenizer: numbers, names, operators; whitespace separates
RECURSIVE Tokenize(_, _)
Tokenize(s, i) ==
    IF i > Len(s) THEN <<>>
    ELSE IF s[i] \in Whitespace THEN Tokenize(s, i + 1)
    ELSE IF s[i] \in DecimalDigits
    THEN LET n == RunLen(s, i, DecimalDigits)
         IN  <<Token("num", SubSeq(s, i, i + n - 1))>> \o Tokenize(s, i + n)
    ELSE IF s[i] \in LowerLetters \cup {"_"}
    THEN LET n == RunLen(s, i, LowerLetters \cup DecimalDigits \cup {"_"})
         IN  <<Token("name", SubSeq(s, i, i + n - 1))>> \o Tokenize(s, i + n)
    ELSE IF i < Len(s) /\ SubSeq(s, i, i + 1) \in Operators2
    THEN <<Token("op", SubSeq(s, i, i + 1))>> \o Tokenize(s, i + 2)
    ELSE IF s[i] \in Operators1
    THEN <<Token("op", <<s[i]>>)>> \o Tokenize(s, i + 1)
    ELSE <<Token("bad", <<s[i]>>)>> \o Tokenize(s, i + 1)

\* the value of a decimal literal
RECURSIVE ParseInt(_)
ParseInt(ds) ==
    IF ds = <<>> THEN 0
    ELSE 10 * ParseInt(SubSeq(ds, 1, Len(ds) - 1))
         + CHOOSE v \in 0..9 : ds[Len(ds)] = <<"0","1","2","3","4","5","6","7","8","9">>[v + 1]

\* a decimal literal with a leading zero is a syntax error unless it is all zeros
ValidLiteral(ds) == Len(ds) = 1 \/ ds[1] # "0" \/ \A k \in 1..Len(ds) : ds[k] = "0"

IsOp(toks, i, o) == i <= Len(toks) /\ toks[i].t = "op" /\ toks[i].s = o
IsKind(toks, i, t) == i <= Len(toks) /\ toks[i].t = t

\* trailing .name attribute references from token i on: [ok, next, attrs]
RECURSIVE ParseAttrs(_, _)
ParseAttrs(toks, i) ==
    IF IsOp(toks, i, <<".">>)
    THEN IF IsKind(toks, i + 1, "name")
         THEN LET rest == ParseAttrs(toks, i + 2)
              IN  [ok |-> rest.ok, next |-> rest.next, attrs |-> <<toks[i + 1].s>> \o rest.attrs]
         ELSE [ok |-> FALSE, next |-> i, attrs |-> <<>>]
    ELSE [ok |-> TRUE, next |-> i, attrs |-> <<>>]

NoToken == Token("none", <<>>)

\* an operand from token i on: a literal, a name, name(argument) or (), then
\* attribute references: [ok, next, node]
ParseOperand(toks, i) ==
    LET none == [ok |-> FALSE, next |-> i,
                 node |-> [k |-> "none", s |-> <<>>, arg |-> NoToken, attrs |-> <<>>]]
        with(k, s, arg, j) ==
            LET a == ParseAttrs(toks, j)
            IN  [ok |-> a.ok, next |-> a.next,
                 node |-> [k |-> k, s |-> s, arg |-> arg, attrs |-> a.attrs]]
    IN  IF IsKind(toks, i, "num")
        THEN (IF ValidLiteral(toks[i].s) /\ ~IsOp(toks, i + 1, <<".">>)
                 /\ ~IsKind(toks, i + 1, "name") /\ ~IsKind(toks, i + 1, "num")
              THEN with("num", toks[i].s, NoToken, i + 1) ELSE none)
        ELSE IF IsKind(toks, i, "name")
        THEN (IF IsOp(toks, i + 1, <<"(">>)
              THEN (IF (IsKind(toks, i + 2, "num") \/ IsKind(toks, i + 2, "name"))
                       /\ IsOp(toks, i + 3, <<")">>)
                       /\ (IsKind(toks, i + 2, "num") => ValidLiteral(toks[i + 2].s))
                    THEN with("call", toks[i].s, toks[i + 2], i + 4) ELSE none)
              ELSE with("name", toks[i].s, NoToken, i + 1))
        ELSE IF IsOp(toks, i, <<"(">>) /\ IsOp(toks, i + 1, <<")">>)
        THEN with("tuple", <<>>, NoToken, i + 2)
        ELSE none

\* LOAD_NAME: the locals mapping, then the globals {"__builtins__": {}}, whose
\* builtins are empty, so a name outside the locals raises NameError
LoadName(scope, name) ==
    IF name \in DOMAIN scope THEN Ok(scope[name]) ELSE Raise("NameError")

\* a literal or name token evaluated
EvalAtom(tok, scope) ==
    IF tok.t = "num" THEN IntResult(ParseInt(tok.s)) ELSE LoadName(scope, tok.s)

RECURSIVE EvalAttrs(_, _)
EvalAttrs(r, attrs) ==
    IF r.err # "" \/ attrs = <<>> THEN r
    ELSE EvalAttrs(GetAttr(r.val, Head(attrs)), Tail(attrs))

EvalOperand(node, scope) ==
    LET start ==
            CASE node.k = "num" -> IntResult(ParseInt(node.s))
              [] node.k = "name" -> LoadName(scope, node.s)
              [] node.k = "tuple" -> Ok(<<"tuple", 0, 1>>)
              [] node.k = "call" ->
                    LET f == LoadName(scope, node.s)
                        a == EvalAtom(node.arg, scope)
                    IN  IF f.err # "" THEN f
                        ELSE IF a.err # "" THEN a
                        ELSE CallValue(f.val, a.val)
              [] OTHER -> OutOfModel
    IN  EvalAttrs(start, node.attrs)

\* compile(text, "<string>", "eval"): the syntax tree of an operand or of
\* operand operator operand; anything else is a syntax error
Parse(text) ==
    LET toks == Tokenize(text, 1)
        p1 == ParseOperand(toks, 1)
        bad == [ok |-> FALSE, op |-> <<>>, left |-> p1.node, right |-> p1.node]
    IN  IF ~p1.ok THEN bad
        ELSE IF p1.next = Len(toks) + 1
        THEN [ok |-> TRUE, op |-> <<>>, left |-> p1.node, right |-> p1.node]
        ELSE IF toks[p1.next].t = "op" /\ toks[p1.next].s \in BinaryOperators
        THEN LET p2 == ParseOperand(toks, p1.next + 1)
             IN  IF ~p2.ok \/ p2.next # Len(toks) + 1 THEN bad
                 ELSE [ok |-> TRUE, op |-> toks[p1.next].s, left |-> p1.node, right |-> p2.node]
        ELSE bad

\* the compiled code run against the scope: a syntax error precedes any
\* evaluation; operands are evaluated left to right
Exec(code, scope) ==
    IF ~code.ok THEN Raise("SyntaxError")
    ELSE IF code.op = <<>> THEN EvalOperand(code.left, scope)
    ELSE LET x == EvalOperand(code.left, scope)
             y == EvalOperand(code.right, scope)
         IN  IF x.err # "" THEN x
             ELSE IF y.err # "" THEN y
             ELSE BinOp(code.op, x.val, y.val)

\* eval(text, {"__builtins__": {}}, scope)
Eval(text, scope) == Exec(Parse(text), scope)

-----------------------------------------------------------------------------
(* calculator.py: the registry, the variable table and evaluate_expression *)

\* the entries of safe_functions the inputs below can name
safe_functions ==
    (<<"p","i">> :> MathPi) @@ (<<"e">> :> MathE) @@ (<<"s","q","r","t">> :> MathSqrt)
        @@ (<<"f","a","c","t","o","r","i","a","l">> :> MathFactorial)

\* a merge in which the entries of a win
DictMergeFirstWins(a, b) == a @@ b

\* {**a, **b}: the entries of b win
DictMerge(a, b) == b @@ a

\* d[k] = v
DictStore(d, k, v) == (k :> v) @@ d

\* s.split("=", 1): the text before and after the first "="
RECURSIVE FirstIndex(_, _, _)
FirstIndex(s, c, i) == IF s[i] = c THEN i ELSE FirstIndex(s, c, i + 1)

SplitFirst(s, c) ==
    LET i == FirstIndex(s, c, 1)
    IN  <<SubSeq(s, 1, i - 1), SubSeq(s, i + 1, Len(s))>>

\* the condition of the if statement: `"=" in expr and "==" not in expr`
IsAssignment(e) == Contains(e, <<"=">>) /\ ~Contains(e, <<"=","=">>)

\* an except clause list without `except ZeroDivisionError`
ErrorResultGeneric(e) == [kind |-> "error", var |-> <<>>, val |-> NoValue, err |-> e]

ValueResult(v) == [kind |-> "value", var |-> <<>>, val |-> v, err |-> ""]
\* f"{var} = {result}", kept as its two parts
AckResult(var, v) == [kind |-> "ack", var |-> var, val |-> v, err |-> ""]
\* "Error: Division by zero" for ZeroDivisionError, f"Error: {e}" for any other exception
ErrorResult(e) ==
    [kind |-> "error", var |-> <<>>, val |-> NoValue,
     err |-> IF e = "ZeroDivisionError" THEN "Division by zero" ELSE e]

\* The part of evaluate_expression that does not read the variable table:
\* preprocessing, the test for an assignment, the split, and the compilation
\* that eval() starts with.
Compile(text) ==
    LET e == preprocess_expression(text)
    IN  IF IsAssignment(e)
        THEN LET parts == SplitFirst(e, "=")
             IN  [assign |-> TRUE, var |-> Strip(parts[1]), code |-> Parse(Strip(parts[2])),
                  src |-> e]
        ELSE [assign |-> FALSE, var |-> <<>>, code |-> Parse(e), src |-> e]

\* The part of evaluate_expression that reads and writes the variable table:
\* [tbl: the table afterwards, ret: the value returned, oom: outside the model]
Run(c, tbl) ==
    LET r == Exec(c.code, DictMerge(safe_functions, tbl))
    IN  IF r.err # ""
        THEN [tbl |-> tbl, ret |-> ErrorResult(r.err), oom |-> r.err = "OutOfModel"]
        ELSE IF ~c.assign
        THEN [tbl |-> tbl, ret |-> ValueResult(r.val), oom |-> FALSE]
        ELSE IF StrRaises(r.val)
        THEN [tbl |-> DictStore(tbl, c.var, r.val), ret |-> ErrorResult("ValueError"),
              oom |-> FALSE]
        ELSE [tbl |-> DictStore(tbl, c.var, r.val), ret |-> AckResult(c.var, r.val),
              oom |-> FALSE]

-----------------------------------------------------------------------------
(* Inputs of the evaluator *)

MaxCalls == 2

\* left-hand sides: an identifier, two registry names, and a word that
\* preprocess_expression rewrites
Targets == {<<"x">>, <<"p","i">>, <<"s","q","r","t">>, <<"t","h","e">>}

LeftOperands == {<<"6">>, <<"x">>}
RightOperands == {<<"0">>, <<"x">>}
InputOperators == {<<"+">>, <<"-">>, <<"*">>, <<"/">>, <<"/","/">>, <<"%">>, <<"*","*">>, <<"=","=">>}

BinaryTexts ==
    {l \o <<" ">> \o o \o <<" ">> \o r : l \in LeftOperands, o \in InputOperators, r \in RightOperands}

AtomTexts ==
    {<<"5">>, <<"0">>, <<"x">>, <<"y">>, <<"p","i">>, <<"s","q","r","t">>, <<"o","p","e","n">>,
     <<"1","0"," ","*","*"," ","4","3","0","0">>, <<"1","0"," ","*","*"," ","4","2","9","9">>, <<"(",")",".","_","_","c","l","a","s","s","_","_">>, <<"s","q","r","t",".","_","_","s","e","l","f","_","_">>, <<"x",".","z","z">>,
     <<"s","q","u","a","r","e"," ","r","o","o","t"," ","o","f"," ","1","6">>, <<"f","a","c","t","o","r","i","a","l"," ","o","f"," ","3">>, <<"2"," ","t","o"," ","t","h","e"," ","p","o","w","e","r"," ","o","f"," ","3">>,
     <<"6"," ","d","i","v","i","d","e","d"," ","b","y"," ","x">>, <<"x"," ","t","i","m","e","s"," ","2">>, <<"6"," ","+">>}

Expressions == BinaryTexts \cup AtomTexts

Assignments == {t \o <<" ","="," ">> \o e : t \in Targets, e \in Expressions}

\* left-hand sides that are no identifiers, an upper-case identifier, and
\* inputs written without the spaces around the operators
OtherTexts ==
    {<<"3"," ","="," ","5">>, <<"x"," ","y"," ","="," ","1">>, <<" ","="," ","2">>, <<"x"," ","<"," ","="," ","5">>, <<"X"," ","="," ","5">>, <<"X"," ","*"," ","2">>, <<"y"," ","="," ","0">>,
     <<"x","=","5">>, <<"x","<","=","5">>, <<"x","=","=","5">>, <<"x"," ","="," ","="," ","5">>, <<"x"," ","="," ","y"," ","="," ","1">>, <<>>}

Inputs == Expressions \cup Assignments \cup OtherTexts

NoResult == [kind |-> "none", var |-> <<>>, val |-> NoValue, err |-> ""]

EmptyDict == <<>>

\* Compile tabulated over the inputs (it is a pure function of the text)
Programs == [t \in Inputs |-> Compile(t)]

\* evaluate_expression(text) with the variable table tbl
evaluate_expression(text, tbl) == Run(Programs[text], tbl)

-----------------------------------------------------------------------------
(* One caller: evaluate_expression called MaxCalls times *)

Evaluate ==
    /\ prog = "web"
    /\ calls < MaxCalls
    /\ \E text \in Inputs :
          LET r == evaluate_expression(text, variables)
          IN  /\ ~r.oom
              /\ variables' = r.tbl
              /\ expr' = text
              /\ result' = r.ret
    /\ calls' = calls + 1
    /\ UNCHANGED <<prog, pc, local, remaining, line, outcome, ntext, nout, base, rounds>>

-----------------------------------------------------------------------------
(* main.py: the fixed-format command-line calculator *)

CliOperators == {"+", "-", "*", "/", "~"}

\* str.isdigit(): not empty, and every character is a digit
IsDigitStr(s) == s # <<>> /\ \A k \in 1..Len(s) : s[k] \in DecimalDigits \cup SuperscriptDigits

\* int(s): [ok, n]; ValueError (ok = FALSE) unless s is, after stripping
\* whitespace, a sequence of decimal digits
PyInt(s) ==
    LET t == Strip(s)
    IN  IF t # <<>> /\ \A k \in 1..Len(t) : t[k] \in DecimalDigits
        THEN [ok |-> TRUE, n |-> ParseInt(t)]
        ELSE [ok |-> FALSE, n |-> 0]

NoTriple == [num1 |-> <<>>, operator |-> "", num2 |-> <<>>]

\* split_expression(text_input) from position i on: NoTriple stands for (None, None, None)
RECURSIVE SplitFrom(_, _)
SplitFrom(text, i) ==
    IF i > Len(text) THEN NoTriple
    ELSE IF text[i] \in CliOperators
    THEN LET num1 == Strip(SubSeq(text, 1, i - 1))
             num2 == Strip(SubSeq(text, i + 1, Len(text)))
         IN  IF ~(IsDigitStr(num1) /\ IsDigitStr(num2)) THEN NoTriple
             ELSE [num1 |-> num1, operator |-> text[i], num2 |-> num2]
    ELSE SplitFrom(text, i + 1)

split_expression(text) == SplitFrom(text, 1)

Printed(kind, v, w) == [kind |-> kind, v |-> v, w |-> w]

DivisionByZeroMessage == Printed("divzero", NoValue, NoValue)
UnsupportedOperatorMessage == Printed("unsupported", NoValue, NoValue)
InvalidExpressionMessage == Printed("invalid", NoValue, NoValue)
BadCountMessage == Printed("badcount", NoValue, NoValue)
ValueErrorRaised == Printed("ValueError", NoValue, NoValue)
NothingPrinted == Printed("none", NoValue, NoValue)

\* calculate(num1, operator, num2): what it returns, or ValueErrorRaised when int() raises
calculate(num1, operator, num2) ==
    LET first_number == PyInt(num1)
        second_number == PyInt(num2)
        a == first_number.n
        b == second_number.n
    IN  IF ~first_number.ok \/ ~second_number.ok THEN ValueErrorRaised
        ELSE IF operator = "+" THEN Printed("number", IntV(a + b), NoValue)
        ELSE IF operator = "-" THEN Printed("number", IntV(a - b), NoValue)
        ELSE IF operator = "*" THEN Printed("number", IntV(a * b), NoValue)
        ELSE IF operator = "/"
        THEN (IF b = 0 THEN DivisionByZeroMessage ELSE Printed("number", FloatV(a, b), NoValue))
        ELSE IF operator = "~"
        THEN (IF b = 0 THEN DivisionByZeroMessage
              ELSE Printed("pair", IntV(FloorDiv(a, b)), IntV(PyMod(a, b))))
        ELSE UnsupportedOperatorMessage

\* what the user types when asked for the number of calculations
CountTexts == {<<"0">>, <<"1">>, <<"2">>, <<" ","2">>, <<"x">>, <<>>, <<"²">>}

\* what the user types when asked for a calculation
CliNumbers == {<<>>, <<"0">>, <<"7">>, <<"1","2">>, <<"0","0">>, <<"²">>, <<"1","²">>, <<"a">>, <<"1"," ","2">>}
CliSymbols == {<<"+">>, <<"-">>, <<"*">>, <<"/">>, <<"~">>, <<>>, <<"%">>, <<"+","-">>, <<"~","/">>}
CliPads == {<<>>, <<" ">>}

CliLines ==
    {p \o n1 \o p \o o \o p \o n2 \o p :
        p \in CliPads, n1 \in CliNumbers, o \in CliSymbols, n2 \in CliNumbers}

\* calculate_multiple(num) up to the loop: int(num) or the error message and return
CliStart ==
    /\ prog = "cli"
    /\ remaining = -1
    /\ \E num \in CountTexts :
          IF PyInt(num).ok
          THEN remaining' = PyInt(num).n /\ outcome' = NothingPrinted
          ELSE remaining' = 0 /\ outcome' = BadCountMessage
    /\ UNCHANGED <<prog, variables, expr, result, calls, pc, local, line, ntext, nout,
                   base, rounds>>

\* the body of the loop of calculate_multiple on one line: split_expression,
\* then the error message, or calculate and print_function
ProcessLine(user_input1) ==
    LET t == split_expression(user_input1)
    IN  IF t = NoTriple THEN InvalidExpressionMessage
        ELSE calculate(t.num1, t.operator, t.num2)

\* ProcessLine tabulated over the lines (it is a pure function of the line)
LineOutcomes == [l \in CliLines |-> ProcessLine(l)]

\* one iteration of the loop of calculate_multiple: input(), then the body; a
\* ValueError raised by calculate is caught nowhere and ends the program
CliStep ==
    /\ prog = "cli"
    /\ remaining > 0
    /\ \E user_input1 \in CliLines :
          /\ line' = user_input1
          /\ outcome' = LineOutcomes[user_input1]
          /\ remaining' = IF LineOutcomes[user_input1] = ValueErrorRaised
                          THEN 0 ELSE remaining - 1
    /\ UNCHANGED <<prog, variables, expr, result, calls, pc, local, ntext, nout, base, rounds>>

InitCommon ==
    /\ variables = EmptyDict
    /\ expr = <<>>
    /\ result = NoResult
    /\ calls = 0
    /\ pc = <<>>
    /\ local = <<>>
    /\ remaining = -1
    /\ line = <<>>
    /\ outcome = NothingPrinted
    /\ ntext = <<>>
    /\ nout = <<"?">>
    /\ base = EmptyDict
    /\ rounds = 0

Init == prog \in {"web", "cli"} /\ InitCommon

Next == Evaluate \/ CliStart \/ CliStep

Spec == Init /\ [][Next]_vars

-----------------------------------------------------------------------------
(* preprocess_expression on its own *)

NormPrefixes == {<<>>, <<"2"," ">>, <<"u","n">>, <<"X"," ">>}

NormPhrases ==
    {<<"t","o"," ","t","h","e"," ","p","o","w","e","r"," ","o","f">>, <<"t","o"," ","t","h","e"," ","p","o","w","e","r">>, <<"p","o","w","e","r"," ","o","f">>, <<"p","o","w","e","r">>, <<"T","o"," ","T","h","e"," ","P","o","w","e","r"," ","O","f">>,
     <<"s","q","u","a","r","e"," ","r","o","o","t"," ","o","f"," ","1","6">>, <<"f","a","c","t","o","r","i","a","l"," ","o","f"," ","5">>, <<"d","i","v","i","d","e","d"," ","b","y">>, <<"m","u","l","t","i","p","l","i","e","d"," ","b","y">>,
     <<"t","i","m","e","s">>, <<"t","h","e">>, <<"o","f">>, <<"p","i">>, <<"e">>}

NormSuffixes == {<<>>, <<" ","5">>, <<"e"," ","5">>, <<"h","o","u","s","e">>, <<" "," ","t","e","n"," ">>}

NormInputs == {a \o b \o c : a \in NormPrefixes, b \in NormPhrases, c \in NormSuffixes}

NotCalled == <<"?">>

Normalize ==
    /\ prog = "norm"
    /\ nout = NotCalled
    /\ nout' = preprocess_expression(ntext)
    /\ UNCHANGED <<prog, variables, expr, result, calls, pc, local, remaining, line, outcome,
                   ntext, base, rounds>>

InitNorm ==
    /\ prog = "norm"
    /\ variables = EmptyDict
    /\ expr = <<>>
    /\ result = NoResult
    /\ calls = 0
    /\ pc = <<>>
    /\ local = <<>>
    /\ remaining = -1
    /\ line = <<>>
    /\ outcome = NothingPrinted
    /\ ntext \in NormInputs
    /\ nout = NotCalled
    /\ base = EmptyDict
    /\ rounds = 0

NextNorm == Normalize

SpecNorm == InitNorm /\ [][NextNorm]_vars

-----------------------------------------------------------------------------
(* The /calculate route served by concurrent request handlers *)

\* app.run() serves each request in a thread of its own; the handlers share
\* the module-level variables dict and take no lock
NumHandlers == 2
MaxRounds == 2

Handlers == 1..NumHandlers

WebInputs == {<<"x"," ","="," ","5">>, <<"x"," ","="," ","6"," ","+"," ","x">>, <<"x"," ","="," ","x"," ","+"," ","x">>, <<"x">>, <<"s","q","r","t"," ","="," ","6"," ","/"," ","0">>}

Idle == [text |-> <<>>, var |-> <<>>, val |-> NoValue, ret |-> NoResult]

\* calculate() up to the eval() of evaluate_expression: the request is read,
\* the text preprocessed, the scope {**safe_functions, **variables} built (the
\* only read of the shared table) and the code evaluated on that copy.  A
\* plain expression or a failed evaluation returns here; an assignment has
\* its store still to do.
Receive(h) ==
    /\ prog = "web"
    /\ pc[h] = "idle"
    /\ \E text \in WebInputs :
          LET c == Programs[text]
              r == Exec(c.code, DictMerge(safe_functions, variables))
          IN  /\ r.err # "OutOfModel"
              /\ IF r.err # ""
                 THEN /\ pc' = [pc EXCEPT ![h] = "done"]
                      /\ local' = [local EXCEPT ![h] =
                            [text |-> text, var |-> c.var, val |-> NoValue,
                             ret |-> ErrorResult(r.err)]]
                 ELSE IF ~c.assign
                 THEN /\ pc' = [pc EXCEPT ![h] = "done"]
                      /\ local' = [local EXCEPT ![h] =
                            [text |-> text, var |-> c.var, val |-> r.val,
                             ret |-> ValueResult(r.val)]]
                 ELSE /\ pc' = [pc EXCEPT ![h] = "evaluated"]
                      /\ local' = [local EXCEPT ![h] =
                            [text |-> text, var |-> c.var, val |-> r.val, ret |-> NoResult]]
    /\ UNCHANGED <<prog, variables, expr, result, calls, remaining, line, outcome, ntext,
                   nout, base, rounds>>

\* variables[var] = result, then the return of the acknowledgment
Store(h) ==
    /\ prog = "web"
    /\ pc[h] = "evaluated"
    /\ variables' = DictStore(variables, local[h].var, local[h].val)
    /\ pc' = [pc EXCEPT ![h] = "done"]
    /\ local' = [local EXCEPT ![h].ret =
          IF StrRaises(local[h].val) THEN ErrorResult("ValueError")
          ELSE AckResult(local[h].var, local[h].val)]
    /\ UNCHANGED <<prog, expr, result, calls, remaining, line, outcome, ntext, nout, base,
                   rounds>>

\* every handler has answered; the next requests arrive
NextRound ==
    /\ prog = "web"
    /\ rounds < MaxRounds
    /\ \A h \in Handlers : pc[h] = "done"
    /\ pc' = [h \in Handlers |-> "idle"]
    /\ local' = [h \in Handlers |-> Idle]
    /\ base' = variables
    /\ rounds' = rounds + 1
    /\ UNCHANGED <<prog, variables, expr, result, calls, remaining, line, outcome, ntext, nout>>

InitWeb ==
    /\ prog = "web"
    /\ variables = EmptyDict
    /\ expr = <<>>
    /\ result = NoResult
    /\ calls = 0
    /\ pc = [h \in Handlers |-> "idle"]
    /\ local = [h \in Handlers |-> Idle]
    /\ remaining = -1
    /\ line = <<>>
    /\ outcome = NothingPrinted
    /\ ntext = <<>>
    /\ nout = NotCalled
    /\ base = EmptyDict
    /\ rounds = 0

NextWeb == \/ \E h \in Handlers : Receive(h)
           \/ \E h \in Handlers : Store(h)
           \/ NextRound

SpecWeb == InitWeb /\ [][NextWeb]_vars

-----------------------------------------------------------------------------
(* Properties *)

\* identifier syntax: a letter or underscore, then letters, digits, underscores
IsIdentifier(s) ==
    /\ s # <<>>
    /\ s[1] \in LowerLetters \cup UpperLetters \cup {"_"}
    /\ \A k \in 1..Len(s) : IsWordChar(s[k])

\* the texts that are one name
NameTexts == {<<"x">>, <<"y">>, <<"p","i">>, <<"s","q","r","t">>, <<"o","p","e","n">>}

\* what a name stands for when the table is consulted before the registry
Resolve(name, tbl) ==
    IF name \in DOMAIN tbl THEN ValueResult(tbl[name])
    ELSE IF name \in DOMAIN safe_functions THEN ValueResult(safe_functions[name])
    ELSE [kind |-> "error", var |-> <<>>, val |-> NoValue, err |-> "NameError"]

DivisionByZeroResult ==
    [kind |-> "error", var |-> <<>>, val |-> NoValue, err |-> "Division by zero"]

\* C1: a call of evaluate_expression that returns an error result leaves the
\* variable table exactly as it was before the call.
C1_ErrorLeavesTableUnchanged ==
    [][(calls' = calls + 1 /\ result'.kind = "error") => variables' = variables]_vars

\* C2: an assignment whose left-hand side is no identifier returns the
\* invalid-variable-name error and adds no key, so every key of the variable
\* table is an identifier.
C2_InvalidTargetRejected ==
    /\ \A k \in DOMAIN variables : IsIdentifier(k)
    /\ (calls > 0 /\ Programs[expr].assign /\ ~IsIdentifier(Programs[expr].var))
          => (result.kind = "error" /\ result.err = "InvalidVariableName")

\* the tables the requests of the handlers in hs can leave, served one after
\* another in any order starting from tbl
RECURSIVE SerialTables(_, _)
SerialTables(hs, tbl) ==
    IF hs = {} THEN {tbl}
    ELSE UNION {SerialTables(hs \ {h}, evaluate_expression(local[h].text, tbl).tbl) : h \in hs}

\* C3: concurrent requests are serialized: once all handlers of a round have
\* answered, the table is one that serving the requests in some serial order
\* produces (no update is lost).
C3_RequestsSerialized ==
    (prog = "web" /\ pc # <<>> /\ \A h \in Handlers : pc[h] = "done")
        => variables \in SerialTables(Handlers, base)

\* targets that are identifiers and that preprocess_expression leaves as they are
PlainTargets == {<<"x">>, <<"p","i">>, <<"s","q","r","t">>}

\* C4: for an identifier n and an expression e that evaluates without error,
\* "n = e" binds n to the value of e and returns the acknowledgment of n and
\* that value; evaluating n afterwards reads the bound value.
C4_AssignmentBindsAndIsRead ==
    [][calls' = calls + 1 =>
         /\ \A n \in PlainTargets, e \in Expressions :
               (/\ expr' = n \o <<" ","="," ">> \o e
                /\ evaluate_expression(e, variables).ret.kind = "value")
               => (/\ result' = AckResult(n, evaluate_expression(e, variables).ret.val)
                   /\ n \in DOMAIN variables'
                   /\ variables'[n] = evaluate_expression(e, variables).ret.val)
         /\ \A n \in PlainTargets :
               (expr' = n /\ n \in DOMAIN variables) => result' = ValueResult(variables[n])
      ]_vars

\* an "=" at position i that is not part of an "==" token
LoneEqAt(e, i) ==
    /\ e[i] = "="
    /\ ~(i > 1 /\ e[i - 1] = "=")
    /\ ~(i < Len(e) /\ e[i + 1] = "=")

LoneEqs(e) == {i \in 1..Len(e) : LoneEqAt(e, i)}

SetMin(S) == CHOOSE m \in S : \A k \in S : m <= k

\* C5: an input is treated as an assignment exactly when it contains an "="
\* that is not part of an "==" token, and it is split at the first such "=".
C5_AssignmentDetection ==
    calls > 0 =>
        LET c == Programs[expr]
            lone == LoneEqs(c.src)
        IN  /\ c.assign <=> lone # {}
            /\ lone # {} => c.var = Strip(SubSeq(c.src, 1, SetMin(lone) - 1))

\* C6: a name is resolved in the union of the registry and the variable table,
\* the table's value winning when the name is in both: a name that is the whole
\* expression evaluates to that value, and a name that is the right-hand side
\* of an assignment has that value bound to the target.
C6_VariablesShadowRegistry ==
    [][calls' = calls + 1 =>
         \A n \in NameTexts :
            /\ expr' = n => (result' = Resolve(n, variables) /\ variables' = variables)
            /\ \A t \in PlainTargets :
                  expr' = t \o <<" ","="," ">> \o n =>
                     IF Resolve(n, variables).kind = "value"
                     THEN variables' = (t :> Resolve(n, variables).val) @@ variables
                     ELSE result' = Resolve(n, variables) /\ variables' = variables
      ]_vars

\* a registry name was assigned and afterwards read: the assigned value came back
C6_Witness ==
    /\ calls = 2
    /\ expr = <<"p","i">>
    /\ <<"p","i">> \in DOMAIN variables
    /\ result = ValueResult(variables[<<"p","i">>])
    /\ result.val # MathPi

\* the value of an operand text: a literal, or a name looked up in the table and the registry
OperandValue(text, tbl) ==
    IF text[1] \in DecimalDigits THEN ValueResult(IntV(ParseInt(text))) ELSE Resolve(text, tbl)

\* the operand is a number / is zero in the table tbl
IsNumberIn(text, tbl) ==
    OperandValue(text, tbl).kind = "value" /\ IsNumber(OperandValue(text, tbl).val)
IsZeroIn(text, tbl) ==
    OperandValue(text, tbl).kind = "value" /\ IsZero(OperandValue(text, tbl).val)

ZeroDivisors == {<<"/">>, <<"/","/">>, <<"%">>, <<"d","i","v","i","d","e","d"," ","b","y">>}

\* the inputs that divide l by r, as a whole expression or as the right-hand
\* side of an assignment
DivisionTexts ==
    [l \in LeftOperands, r \in RightOperands |->
        LET d == {l \o <<" ">> \o o \o <<" ">> \o r : o \in ZeroDivisors}
        IN  (d \cup {t \o <<" ","="," ">> \o e : t \in Targets, e \in d}) \cap Inputs]

\* the lines of the CLI that divide a decimal number by zero
CliZeroDivisionLines ==
    {p \o n1 \o p \o o \o p \o n2 \o p :
        p \in CliPads, n1 \in {<<"0">>, <<"7">>, <<"1","2">>, <<"0","0">>}, o \in {<<"/">>, <<"~">>},
        n2 \in {<<"0">>, <<"0","0">>}}

C8_OnlyAllowListedScope ==
    calls > 0 =>
        /\ result.val[1] # "host"
        /\ \A k \in DOMAIN variables : variables[k][1] # "host"
        /\ (expr \in NameTexts /\ expr \notin DOMAIN variables \cup DOMAIN safe_functions)
              => (result.kind = "error" /\ result.err = "NameError")

PowerPhrases == {<<"t","o"," ","t","h","e"," ","p","o","w","e","r"," ","o","f">>, <<"t","o"," ","t","h","e"," ","p","o","w","e","r">>, <<"p","o","w","e","r"," ","o","f">>, <<"p","o","w","e","r">>}

\* the passes the claim lists (all but the identity rewrites of pi and e)
ListedPasses == {k \in 1..Len(Passes) : Passes[k].pat \notin {<<"p","i">>, <<"e">>}}

\* C9: every rewrite pass replaces only at word boundaries, and a power phrase
\* between two operands becomes exactly one "**".
C9_RewritesAtWordBoundaries ==
    nout # NotCalled =>
        /\ \A k \in ListedPasses :
              \A m \in PassMatches(k, ntext) :
                 /\ BoundaryAt(AfterPasses(k - 1, ntext), m[1])
                 /\ Passes[k].kind = "lit" => BoundaryAt(AfterPasses(k - 1, ntext), m[2])
        /\ \A ph \in PowerPhrases :
              ntext = <<"2"," ">> \o ph \o <<" ","5">> => nout = <<"2"," ","*","*"," ","5">>

\* C10: a line is either rejected with the invalid-expression message, or
\* split into two digit strings around the first operator character of the
\* line, and then calculate returns a number, a pair or the division-by-zero
\* error.
C10_CliLineOutcome ==
    (prog = "cli" /\ outcome.kind \notin {"none", "badcount"}) =>
        /\ outcome.kind \in {"invalid", "number", "pair", "divzero"}
        /\ outcome.kind # "invalid" =>
              LET t == split_expression(line)
              IN  /\ IsDigitStr(t.num1) /\ IsDigitStr(t.num2)
                  /\ t.operator \in CliOperators
                  /\ \E i \in 1..Len(line) :
                        /\ line[i] = t.operator
                        /\ \A j \in 1..(i - 1) : line[j] \notin CliOperators

=============================================================================
